---- MODULE Spec2Model ----
(***************************************************************************)
(* Model of the two document transformations of tools/llm:                 *)
(*   annotate.py  add_llm_annotations / annotate_data  (the Annotator)     *)
(*   index.py     create_semantic_index                (the Indexer)       *)
(*                                                                         *)
(* A YAML/JSON value is a tagged node.  A Python dict is an insertion-     *)
(* ordered sequence of <<key, value>> pairs with unique keys, so that      *)
(* iteration order and the overwrite of an existing key behave as in       *)
(* Python.  The Indexer only reads its bundle with dict.get and builds     *)
(* fresh dicts with fixed keys, so its dicts are TLA+ functions over a set *)
(* of field names.                                                         *)
(***************************************************************************)
EXTENDS Integers, Sequences, FiniteSets, TLC

VARIABLES doc, annotated, twice, apc, metadata, index, ipc

vars == <<doc, annotated, twice, apc, metadata, index, ipc>>

(***************************************************************************)
(* Documents                                                               *)
(***************************************************************************)
S(v) == [t |-> "scalar", v |-> v]
L(items) == [t |-> "list", items |-> items]
D(kv) == [t |-> "dict", kv |-> kv]
None == [t |-> "none"]

IsDict(d) == d.t = "dict"
IsList(d) == d.t = "list"
IsScalar(d) == d.t = "scalar"

DictKeys(d) == {d.kv[i][1] : i \in DOMAIN d.kv}
HasKey(d, k) == \E i \in DOMAIN d.kv : d.kv[i][1] = k
DictGet(d, k) == d.kv[CHOOSE i \in DOMAIN d.kv : d.kv[i][1] = k][2]

\* result[k] = v, always appending a new entry (a dict that kept duplicates).
DictSetAppend(d, k, v) == D(Append(d.kv, <<k, v>>))

\* result[k] = v : an existing key keeps its position and takes the new value.
DictSet(d, k, v) ==
    IF HasKey(d, k)
    THEN D([i \in DOMAIN d.kv |-> IF d.kv[i][1] = k THEN <<k, v>> ELSE d.kv[i]])
    ELSE D(Append(d.kv, <<k, v>>))

\* k.startswith("_")
StartsWithMarker(k) == Len(k) >= 1 /\ SubSeq(k, 1, 1) = "_"

\* f"_{key}_annotations"
SiblingKey(key) == "_" \o key \o "_annotations"

\* {k: v for k, v in a.items() if not k.startswith("_")}
NestedAnn(a) == D(SelectSeq(a.kv, LAMBDA p : ~StartsWithMarker(p[1])))

\* ann.get("_llm_item_annotations") if (ann and isinstance(ann, dict)) else None
ItemAnn(ann) ==
    IF IsDict(ann) /\ ann.kv # <<>> /\ HasKey(ann, "_llm_item_annotations")
    THEN DictGet(ann, "_llm_item_annotations")
    ELSE None

(***************************************************************************)
(* The annotation table of add_llm_annotations                             *)
(***************************************************************************)
Desc(text) == <<"_llm_description", S(text)>>
Strs(seq) == L([i \in DOMAIN seq |-> S(seq[i])])

VolumeItemAnnotations ==
    D(<< <<"name", D(<<Desc("Volume name (lowercase, alphanumeric, '-')")>>)>>,
         <<"size", D(<<Desc("Volume size (e.g., \"1Gi\", \"500Mi\")")>>)>>,
         <<"mountPath", D(<<Desc("Mount path for the volume (must start with '/')")>>)>> >>)

SecretItemAnnotations ==
    D(<< <<"name", D(<<Desc("Secret name (lowercase, alphanumeric, '-')")>>)>>,
         <<"data", D(<<Desc("Secret data (raw or Base64-encoded)")>>)>>,
         <<"mountPath", D(<<Desc("Mount path where the secret file will be stored (must start with '/')")>>)>>,
         <<"fileName", D(<<Desc("Name of the secret file (e.g., 'secret-file.txt')")>>)>> >>)

VarItemAnnotations ==
    D(<< <<"key", D(<<Desc("Environment variable name")>>)>>,
         <<"value", D(<<Desc("Value of the environment variable")>>)>> >>)

PodItemAnnotations ==
    D(<< <<"name", D(<<Desc("Pod name (must start with a lowercase letter and can include only alphanumeric characters, '-', '.')")>>)>>,
         <<"path", D(<<Desc("Path to render pod at (e.g., '/' for frontend). Only required for forward-facing pods.")>>)>>,
         <<"image", D(<<Desc("Docker image for the pod. For private images, use the schema '<% REGISTRY %>/some/path/image:tag'. Images including '<% REGISTRY %>' will have the registry value replaced.")>>)>>,
         <<"volumes", D(<<Desc("List of volumes to be mounted for this pod"),
                          <<"_llm_item_annotations", VolumeItemAnnotations>> >>)>>,
         <<"secrets", D(<<Desc("List of secret files for this pod"),
                          <<"_llm_item_annotations", SecretItemAnnotations>> >>)>>,
         <<"vars", D(<<Desc("Environment variables for this pod"),
                       <<"_llm_item_annotations", VarItemAnnotations>> >>)>>,
         <<"servicePorts", D(<<Desc("Ports to expose for this pod"),
                               <<"_llm_examples", Strs(<<"3000">>)>> >>)>> >>)

RegistryLoginAnnotations ==
    D(<< Desc("Registry login information for private image storage"),
         <<"registry", D(<<Desc("The registry where private images are stored")>>)>>,
         <<"username", D(<<Desc("Registry username")>>)>>,
         <<"personalAccessToken", D(<<Desc("Read-only registry Personal Access Token")>>)>> >>)

PodsAnnotations ==
    D(<< Desc("List of containers to deploy"),
         <<"_llm_pod_types", Strs(<<"Web servers", "Application servers",
                                    "Databases", "Background workers">>)>>,
         <<"_llm_best_practices", Strs(<<"Use descriptive pod names",
                                         "Configure appropriate resource limits",
                                         "Set health checks for reliability">>)>>,
         <<"_llm_item_annotations", PodItemAnnotations>> >>)

ApplicationAnnotations ==
    D(<< Desc("Root configuration for a Nexlayer application deployment"),
         <<"_llm_examples", Strs(<<"Simple web service", "Multi-pod application",
                                   "Stateful application with volumes">>)>>,
         <<"_llm_common_patterns", Strs(<<"Frontend with backend services",
                                          "API with database", "Static website">>)>>,
         <<"name", D(<<Desc("The name of the deployment (must be lowercase, alphanumeric, '-', '.')")>>)>>,
         <<"url", D(<<Desc("Permanent domain URL (optional). Omit if not a permanent deployment.")>>)>>,
         <<"registryLogin", RegistryLoginAnnotations>>,
         <<"pods", PodsAnnotations>>,
         <<"entrypoint", D(<<Desc("Custom container entrypoint (optional)")>>)>>,
         <<"command", D(<<Desc("Custom container command (optional)")>>)>> >>)

annotations == D(<< <<"application", ApplicationAnnotations>> >>)

(***************************************************************************)
(* annotate_data                                                           *)
(***************************************************************************)
RECURSIVE annotate_data(_, _)
RECURSIVE AnnotateEntries(_, _, _)

\* The value stored for a key that has no annotation (the else branch).
Unannotated(value) ==
    IF IsDict(value) THEN annotate_data(value, None)
    ELSE IF IsList(value)
    THEN L([i \in DOMAIN value.items |->
              IF IsDict(value.items[i]) THEN annotate_data(value.items[i], None)
              ELSE value.items[i]])
    ELSE value

\* One iteration of `for key, value in d.items()`.
AnnotateEntry(result, key, value, ann) ==
    IF ann # None /\ HasKey(ann, key)
    THEN DictSet(DictSet(result, SiblingKey(key), DictGet(ann, key)),
                 key, annotate_data(value, NestedAnn(DictGet(ann, key))))
    ELSE DictSet(result, key, Unannotated(value))

AnnotateEntries(kv, ann, result) ==
    IF kv = <<>> THEN result
    ELSE AnnotateEntries(Tail(kv), ann,
                         AnnotateEntry(result, Head(kv)[1], Head(kv)[2], ann))

annotate_data(d, ann) ==
    IF IsDict(d) THEN AnnotateEntries(d.kv, ann, D(<<>>))
    ELSE IF IsList(d)
    THEN L([i \in DOMAIN d.items |->
              IF IsDict(d.items[i]) THEN annotate_data(d.items[i], ItemAnn(ann))
              ELSE d.items[i]])
    ELSE d

add_llm_annotations(data) == annotate_data(data, annotations)

(***************************************************************************)
(* Input documents of the Annotator.  A dict of the input has 1..MaxWidth  *)
(* keys, in every order, and at most one value that is not the plain       *)
(* scalar; a list has at most MaxItems elements; the empty document is an  *)
(* input too.                                                              *)
(***************************************************************************)
MaxWidth == 2
MaxItems == 2

Plain == S("v")

KeySeqs(keys, n) ==
    {ks \in [1..n -> keys] : \A i, j \in 1..n : i # j => ks[i] # ks[j]}

DictsOver(keys, values) ==
    UNION {UNION {UNION {{D([i \in 1..n |-> <<ks[i], IF i = j THEN v ELSE Plain>>])
                            : v \in values}
                         : j \in 1..n}
                  : ks \in KeySeqs(keys, n)}
           : n \in 1..MaxWidth}

ListsOver(values) ==
    UNION {{L(items) : items \in [1..n -> values]} : n \in 0..MaxItems}

ItemKeys == {"name"}
AppKeys == {"name", "pods", "application"}
TopKeys == {"application", "_application_annotations", "other"}

ItemDicts == DictsOver(ItemKeys, {Plain})
PodLists == ListsOver(ItemDicts \cup {Plain})
AppDicts == DictsOver(AppKeys, {Plain} \cup ItemDicts \cup PodLists)
Documents == {D(<<>>)} \cup DictsOver(TopKeys, {Plain} \cup PodLists \cup AppDicts)

(***************************************************************************)
(* create_semantic_index                                                   *)
(***************************************************************************)
EmptyDict == [k \in {} |-> k]

\* m.get(k, default)
Get(m, k, default) == IF k \in DOMAIN m THEN m[k] ELSE default

IntentRecord(intent) ==
    [text |-> Get(intent, "intent", ""),
     keywords |-> Get(intent, "keywords", <<>>),
     context |-> [actions |-> Get(intent, "actions", <<>>),
                  examples |-> Get(intent, "examples", <<>>),
                  suggestions |-> Get(intent, "suggestions", <<>>)]]

\* A pattern record whose use_case falls back on the template placeholder.
PatternRecordUnknown(pattern) ==
    [text |-> Get(pattern, "description", ""),
     keywords |-> Get(pattern, "keywords", <<>>),
     context |-> [name |-> Get(pattern, "name", ""),
                  template |-> Get(pattern, "template", ""),
                  explanation |-> Get(pattern, "explanation", ""),
                  use_case |-> Get(pattern, "use_case", "unknown")]]

PatternRecord(pattern) ==
    [text |-> Get(pattern, "description", ""),
     keywords |-> Get(pattern, "keywords", <<>>),
     context |-> [name |-> Get(pattern, "name", ""),
                  template |-> Get(pattern, "template", ""),
                  explanation |-> Get(pattern, "explanation", ""),
                  use_case |-> Get(pattern, "use_case", "")]]

ExampleRecord(example) ==
    [text |-> Get(example, "description", ""),
     keywords |-> Get(example, "keywords", <<>>),
     context |-> example]

EndpointContext(endpoint) ==
    [path |-> Get(endpoint, "path", ""),
     method |-> Get(endpoint, "method", ""),
     description |-> Get(endpoint, "description", ""),
     patterns |-> Get(endpoint, "common_patterns", <<>>)]

\* One record per endpoint, on its first usage example only.
EndpointRecordsFirstOnly(endpoint) ==
    LET examples == Get(endpoint, "usage_examples", <<>>)
    IN  IF examples = <<>> THEN <<>>
        ELSE <<[text |-> examples[1], context |-> EndpointContext(endpoint)]>>

\* The inner loop: for example in endpoint.get('usage_examples', []).
EndpointRecords(endpoint) ==
    LET examples == Get(endpoint, "usage_examples", <<>>)
    IN  [i \in DOMAIN examples |->
           [text |-> examples[i], context |-> EndpointContext(endpoint)]]

RECURSIVE ApiUsage(_)
\* The outer loop: for endpoint in metadata.get('api_endpoints', []).
ApiUsage(endpoints) ==
    IF endpoints = <<>> THEN <<>>
    ELSE EndpointRecords(Head(endpoints)) \o ApiUsage(Tail(endpoints))

\* A template entry whose keywords are always the pair [name, url].
TemplateEntryAlwaysPair(template) ==
    LET app == Get(template, "application", EmptyDict)
    IN  [text |-> "Deployment template for " \o Get(app, "name", "unknown"),
         keywords |-> <<Get(app, "name", ""), Get(app, "url", "")>>,
         context |-> template]

TemplateEntry(template) ==
    LET app == Get(template, "application", EmptyDict)
    IN  [text |-> "Deployment template for " \o Get(app, "name", "unknown"),
         keywords |-> IF DOMAIN app # {}
                      THEN <<Get(app, "name", ""), Get(app, "url", "")>>
                      ELSE <<>>,
         context |-> template]

\* An index whose template list is filled even without annotated_template.
TemplatesAlways(bundle) == <<TemplateEntry(Get(bundle, "annotated_template", EmptyDict))>>

Templates(bundle) ==
    IF "annotated_template" \in DOMAIN bundle
    THEN <<TemplateEntry(bundle["annotated_template"])>>
    ELSE <<>>

create_semantic_index(bundle) ==
    LET user_intents == Get(bundle, "user_intents", <<>>)
        deployment_patterns == Get(bundle, "deployment_patterns", <<>>)
        deployment_examples == Get(bundle, "deployment_examples", <<>>)
    IN  [intents |-> [i \in DOMAIN user_intents |-> IntentRecord(user_intents[i])],
         patterns |-> [i \in DOMAIN deployment_patterns |->
                         PatternRecord(deployment_patterns[i])],
         examples |-> [i \in DOMAIN deployment_examples |->
                         ExampleRecord(deployment_examples[i])],
         api_usage |-> ApiUsage(Get(bundle, "api_endpoints", <<>>)),
         templates |-> Templates(bundle)]

(***************************************************************************)
(* Metadata bundles.  One category of a bundle (the focus) ranges over its *)
(* lists: the empty list, every one-element list whose element holds any   *)
(* subset of its fields, and the lists of 2..MaxElems core elements; any   *)
(* subset of the other list categories is present with one full element.   *)
(***************************************************************************)
MaxElems == 2
MaxExamples == 2

StringFields == {"intent", "description", "name", "template", "explanation",
                 "use_case", "path", "method", "url"}

Sample(f) == IF f \in StringFields THEN "the " \o f ELSE <<f \o " 1", f \o " 2">>

IntentFields == {"intent", "keywords", "actions", "examples", "suggestions"}
PatternFields == {"description", "keywords", "name", "template", "explanation", "use_case"}
ExampleFields == {"description", "keywords", "template"}
EndpointFields == {"path", "method", "description", "common_patterns"}

Mappings(fields) == {[f \in F |-> Sample(f)] : F \in SUBSET fields}
Full(fields) == [f \in fields |-> Sample(f)]

UsageExamples == UNION {[1..n -> {"e1", "e2"}] : n \in 0..MaxExamples}

WithUsage(m, examples) ==
    [f \in DOMAIN m \cup {"usage_examples"} |->
       IF f = "usage_examples" THEN examples ELSE m[f]]

Endpoints ==
    Mappings(EndpointFields) \cup
    {WithUsage(m, ex) : m \in Mappings(EndpointFields), ex \in UsageExamples}

CoreEndpoints ==
    {WithUsage(Full(EndpointFields), <<"e1", "e2">>),
     WithUsage(EmptyDict, <<"e2">>),
     Full(EndpointFields)}

ListsOf(elements, core) ==
    {<<>>} \cup {<<e>> : e \in elements}
           \cup UNION {[1..n -> core] : n \in 2..MaxElems}

ListCategories == {"user_intents", "deployment_patterns", "deployment_examples",
                   "api_endpoints"}

CategoryLists(c) ==
    CASE c = "user_intents" ->
           ListsOf(Mappings(IntentFields), {Full(IntentFields), EmptyDict})
      [] c = "deployment_patterns" ->
           ListsOf(Mappings(PatternFields), {Full(PatternFields), EmptyDict})
      [] c = "deployment_examples" ->
           ListsOf(Mappings(ExampleFields), {Full(ExampleFields), EmptyDict})
      [] c = "api_endpoints" -> ListsOf(Endpoints, CoreEndpoints)

DefaultList(c) ==
    CASE c = "user_intents" -> <<Full(IntentFields)>>
      [] c = "deployment_patterns" -> <<Full(PatternFields)>>
      [] c = "deployment_examples" -> <<Full(ExampleFields)>>
      [] c = "api_endpoints" -> <<WithUsage(Full(EndpointFields), <<"e1">>)>>

Applications == Mappings({"name", "url"})

AnnotatedTemplates ==
    {EmptyDict, [version |-> "the version"]} \cup
    {[application |-> app] : app \in Applications} \cup
    {[application |-> app, version |-> "the version"] : app \in Applications}

ListBundle(c, list, others) ==
    [k \in others \cup {c} |-> IF k = c THEN list ELSE DefaultList(k)]

TemplateBundle(template, others) ==
    [k \in others \cup {"annotated_template"} |->
       IF k = "annotated_template" THEN template ELSE DefaultList(k)]

Bundles ==
    UNION {{ListBundle(c, list, others) :
              list \in CategoryLists(c), others \in SUBSET (ListCategories \ {c})}
           : c \in ListCategories}
    \cup {TemplateBundle(template, others) :
            template \in AnnotatedTemplates, others \in SUBSET ListCategories}

(***************************************************************************)
(* annotate.py main: load a document, annotate it, write it.  Running the  *)
(* tool on its own output is AnnotateAgain.                                *)
(***************************************************************************)
InitAnnotate ==
    /\ doc \in Documents
    /\ annotated = None
    /\ twice = None
    /\ apc = "loaded"
    /\ metadata = EmptyDict
    /\ index = EmptyDict
    /\ ipc = "idle"

Annotate ==
    /\ apc = "loaded"
    /\ annotated' = add_llm_annotations(doc)
    /\ apc' = "annotated"
    /\ UNCHANGED <<doc, twice, metadata, index, ipc>>

AnnotateAgain ==
    /\ apc = "annotated"
    /\ twice' = add_llm_annotations(annotated)
    /\ apc' = "twice"
    /\ UNCHANGED <<doc, annotated, metadata, index, ipc>>

(***************************************************************************)
(* index.py main: load the metadata, build the index, write it.            *)
(***************************************************************************)
InitIndex ==
    /\ metadata \in Bundles
    /\ index = EmptyDict
    /\ ipc = "loaded"
    /\ doc = None
    /\ annotated = None
    /\ twice = None
    /\ apc = "idle"

BuildIndex ==
    /\ ipc = "loaded"
    /\ index' = create_semantic_index(metadata)
    /\ ipc' = "indexed"
    /\ UNCHANGED <<metadata, doc, annotated, twice, apc>>

Init == InitAnnotate \/ InitIndex
Next == Annotate \/ AnnotateAgain \/ BuildIndex
Spec == Init /\ [][Next]_vars

(***************************************************************************)
(* Vocabulary of the Annotator properties                                  *)
(***************************************************************************)
AnnotateDone == apc \in {"annotated", "twice"}

RECURSIVE DeepEq(_, _)
\* Python ==: dicts are equal when they hold the same keys with equal values,
\* whatever the order; lists are equal elementwise.
DeepEq(a, b) ==
    IF IsDict(a)
    THEN /\ IsDict(b)
         /\ Len(a.kv) = Len(b.kv)
         /\ DictKeys(a) = DictKeys(b)
         /\ \A k \in DictKeys(a) : DeepEq(DictGet(a, k), DictGet(b, k))
    ELSE IF IsList(a)
    THEN /\ IsList(b)
         /\ Len(a.items) = Len(b.items)
         /\ \A n \in DOMAIN a.items : DeepEq(a.items[n], b.items[n])
    ELSE a = b

\* The reserved-metadata fields of a schema entry.
ReservedFields(entry) == D(SelectSeq(entry.kv, LAMBDA p : StartsWithMarker(p[1])))

\* The schema entry of key k in schema a, if there is one.
Matched(a, k) == a # None /\ HasKey(a, k)

RECURSIVE Sites(_, _, _)
\* Every dict the traversal visits: the input dict i, the output dict o built
\* for it, and the schema a in force there.
Sites(i, o, a) ==
    IF IsDict(i) /\ IsDict(o)
    THEN {[i |-> i, o |-> o, a |-> a]} \cup
         UNION {IF HasKey(o, k)
                THEN Sites(DictGet(i, k), DictGet(o, k),
                           IF Matched(a, k) THEN NestedAnn(DictGet(a, k)) ELSE None)
                ELSE {}
                : k \in DictKeys(i)}
    ELSE IF IsList(i) /\ IsList(o) /\ Len(i.items) = Len(o.items)
    THEN UNION {Sites(i.items[n], o.items[n], ItemAnn(a)) : n \in DOMAIN i.items}
    ELSE {}

RECURSIVE LeafPreserved(_, _)
\* Every scalar leaf of i is found, at the same path, with the same value in o.
LeafPreserved(i, o) ==
    IF IsDict(i)
    THEN \A k \in DictKeys(i) :
            LeafPreserved(DictGet(i, k),
                          IF IsDict(o) /\ HasKey(o, k) THEN DictGet(o, k) ELSE None)
    ELSE IF IsList(i)
    THEN \A n \in DOMAIN i.items :
            LeafPreserved(i.items[n],
                          IF IsList(o) /\ n \in DOMAIN o.items THEN o.items[n] ELSE None)
    ELSE o = i

\* A key of the form _<k>_annotations.
IsSiblingForm(k) ==
    /\ Len(k) >= 13
    /\ SubSeq(k, 1, 1) = "_"
    /\ SubSeq(k, Len(k) - 11, Len(k)) = "_annotations"

RECURSIVE NoSiblingKeys(_)
NoSiblingKeys(d) ==
    IF IsDict(d)
    THEN \A n \in DOMAIN d.kv : ~IsSiblingForm(d.kv[n][1]) /\ NoSiblingKeys(d.kv[n][2])
    ELSE IF IsList(d)
    THEN \A n \in DOMAIN d.items : NoSiblingKeys(d.items[n])
    ELSE TRUE

(***************************************************************************)
(* Annotator properties                                                    *)
(***************************************************************************)

\* C1: for every document key k with a matching entry in the schema in force,
\* the sibling _<k>_annotations of the output holds exactly the reserved
\* (marker-prefixed) fields of that entry; its nested path entries are excluded.
C1_SiblingHoldsReservedFieldsOnly ==
    AnnotateDone =>
        \A s \in Sites(doc, annotated, annotations) :
            \A k \in DictKeys(s.i) :
                Matched(s.a, k) =>
                    /\ HasKey(s.o, SiblingKey(k))
                    /\ DeepEq(DictGet(s.o, SiblingKey(k)),
                              ReservedFields(DictGet(s.a, k)))

\* C2: when key k matches a schema entry that has an item-annotations child and
\* the value at k is a list, every dict element of the list is annotated with
\* the item-annotations node (a sibling for each of its keys that the node
\* knows), and every other element passes through unchanged.
C2_ListElementsAnnotated ==
    AnnotateDone =>
        \A s \in Sites(doc, annotated, annotations) :
            \A k \in DictKeys(s.i) :
                (/\ Matched(s.a, k)
                 /\ HasKey(DictGet(s.a, k), "_llm_item_annotations")
                 /\ IsList(DictGet(s.i, k))) =>
                    LET itemAnn == DictGet(DictGet(s.a, k), "_llm_item_annotations")
                        inl == DictGet(s.i, k).items
                        out == DictGet(s.o, k)
                    IN  /\ IsList(out)
                        /\ Len(out.items) = Len(inl)
                        /\ \A n \in DOMAIN inl :
                              IF IsDict(inl[n])
                              THEN /\ IsDict(out.items[n])
                                   /\ \A j \in DictKeys(inl[n]) \cap DictKeys(itemAnn) :
                                         HasKey(out.items[n], SiblingKey(j))
                              ELSE out.items[n] = inl[n]

\* C3: every scalar leaf of the input is found with the identical value at the
\* same path of the output, whatever the key names of the input.
C3_LeavesPreserved ==
    AnnotateDone => LeafPreserved(doc, annotated)

\* C4: the value stored under a document key that has no entry in the schema in
\* force is deep-equal to the input subtree at that key.
C4_UnmatchedSubtreeCopied ==
    AnnotateDone =>
        \A s \in Sites(doc, annotated, annotations) :
            \A k \in DictKeys(s.i) :
                ~Matched(s.a, k) =>
                    /\ HasKey(s.o, k)
                    /\ DeepEq(DictGet(s.o, k), DictGet(s.i, k))

\* C10 as stated: for every document with a key matching the schema and no key
\* of the form _<k>_annotations, annotating the annotated document yields a
\* document that differs from it.
C10_NotIdempotent ==
    (apc = "twice" /\ HasKey(doc, "application") /\ NoSiblingKeys(doc)) =>
        ~DeepEq(twice, annotated)

\* C10 amended: for every document with no key of the form _<k>_annotations,
\* annotating the annotated document yields a document equal to it, with the
\* keys in the same order.
C10_IdempotentWithoutSiblingKeys ==
    (apc = "twice" /\ NoSiblingKeys(doc)) =>
        /\ DeepEq(twice, annotated)
        /\ twice = annotated

C10_Witness ==
    /\ apc = "twice"
    /\ NoSiblingKeys(doc)
    /\ HasKey(doc, "application")
    /\ IsDict(DictGet(doc, "application"))
    /\ HasKey(DictGet(doc, "application"), "pods")
    /\ HasKey(annotated, "_application_annotations")
    /\ HasKey(DictGet(annotated, "application"), "_pods_annotations")

(***************************************************************************)
(* Vocabulary of the Indexer properties                                    *)
(***************************************************************************)
IndexDone == ipc = "indexed"

IndexKeys == {"intents", "patterns", "examples", "api_usage", "templates"}
RecordFields == {"text", "keywords", "context"}

\* The value of field k of mapping m, or the stated default when m lacks k.
FieldOr(m, k, default) == IF k \in DOMAIN m THEN m[k] ELSE default

SourceList(k) == FieldOr(metadata, k, <<>>)
UsageOf(endpoint) == FieldOr(endpoint, "usage_examples", <<>>)

RECURSIVE UsageBefore(_, _)
\* The number of usage examples of the first n endpoints.
UsageBefore(endpoints, n) ==
    IF n = 0 THEN 0
    ELSE UsageBefore(endpoints, n - 1) + Len(UsageOf(endpoints[n]))

ExpectedContext(endpoint) ==
    [path |-> FieldOr(endpoint, "path", ""),
     method |-> FieldOr(endpoint, "method", ""),
     description |-> FieldOr(endpoint, "description", ""),
     patterns |-> FieldOr(endpoint, "common_patterns", <<>>)]

TemplateText(app) == "Deployment template for " \o FieldOr(app, "name", "unknown")
NameUrl(app) == <<FieldOr(app, "name", ""), FieldOr(app, "url", "")>>

(***************************************************************************)
(* Indexer properties                                                      *)
(***************************************************************************)

\* C5: every record of every list of the index, api_usage included, has exactly
\* the fields text, keywords and context, and the keywords of an api_usage
\* record is the empty sequence.
C5_EveryRecordHasThreeFields ==
    IndexDone =>
        \A name \in IndexKeys :
            \A n \in DOMAIN index[name] :
                /\ DOMAIN index[name][n] = RecordFields
                /\ name = "api_usage" => index[name][n].keywords = <<>>

\* C6 as stated: a bundle with an annotated_template yields exactly one templates
\* record with text "Deployment template for <name>" (placeholder when the name
\* is absent), keywords the pair [name, url] with an absent name, url or
\* application rendered as empty strings, and the whole template as context;
\* without annotated_template, templates is empty.
C6_KeywordsAlwaysNameUrl ==
    IndexDone =>
        IF "annotated_template" \in DOMAIN metadata
        THEN LET app == FieldOr(metadata["annotated_template"], "application", EmptyDict)
             IN  /\ Len(index.templates) = 1
                 /\ index.templates[1].text = TemplateText(app)
                 /\ index.templates[1].keywords = NameUrl(app)
                 /\ index.templates[1].context = metadata["annotated_template"]
        ELSE index.templates = <<>>

\* C6 amended: as stated, except that the keywords is the pair [name, url] only
\* when the application is a non-empty mapping; when the application is absent
\* or empty the keywords is the empty sequence.
C6_KeywordsNameUrlOrEmpty ==
    IndexDone =>
        IF "annotated_template" \in DOMAIN metadata
        THEN LET app == FieldOr(metadata["annotated_template"], "application", EmptyDict)
             IN  /\ Len(index.templates) = 1
                 /\ index.templates[1].text = TemplateText(app)
                 /\ index.templates[1].keywords =
                       (IF DOMAIN app = {} THEN <<>> ELSE NameUrl(app))
                 /\ index.templates[1].context = metadata["annotated_template"]
        ELSE index.templates = <<>>

C6_Witness ==
    /\ IndexDone
    /\ "annotated_template" \in DOMAIN metadata
    /\ "application" \notin DOMAIN metadata["annotated_template"]
    /\ index.templates[1].keywords = <<>>
    /\ index.templates[1].text = "Deployment template for unknown"

\* C7: api_usage is, in order, one record per usage example of each endpoint,
\* endpoints in source order and examples in source order within an endpoint:
\* the j-th example of the e-th endpoint is the record at position
\* (number of examples of the endpoints before e) + j, its text is that example
\* and its context is {path, method, description, patterns} of that endpoint.
C7_ApiUsageIsEndpointMajor ==
    IndexDone =>
        LET endpoints == SourceList("api_endpoints")
        IN  /\ Len(index.api_usage) = UsageBefore(endpoints, Len(endpoints))
            /\ \A e \in DOMAIN endpoints :
                  \A j \in DOMAIN UsageOf(endpoints[e]) :
                      LET r == index.api_usage[UsageBefore(endpoints, e - 1) + j]
                      IN  /\ r.text = UsageOf(endpoints[e])[j]
                          /\ r.context = ExpectedContext(endpoints[e])

C7_Witness ==
    /\ IndexDone
    /\ Len(SourceList("api_endpoints")) = 2
    /\ UsageOf(SourceList("api_endpoints")[1]) = <<"e1", "e2">>
    /\ UsageOf(SourceList("api_endpoints")[2]) = <<"e2">>
    /\ Len(index.api_usage) = 3
    /\ index.api_usage[1].context = index.api_usage[2].context
    /\ index.api_usage[3].context # index.api_usage[2].context

\* C8: the index has exactly the five keys intents, patterns, examples,
\* api_usage and templates, each a sequence; a key whose source field is absent
\* from the bundle holds the empty sequence; intents, patterns and examples have
\* as many records as their source lists.
C8_FiveListsAlways ==
    IndexDone =>
        /\ DOMAIN index = IndexKeys
        /\ \A name \in IndexKeys : DOMAIN index[name] = 1..Len(index[name])
        /\ "user_intents" \notin DOMAIN metadata => index.intents = <<>>
        /\ "deployment_patterns" \notin DOMAIN metadata => index.patterns = <<>>
        /\ "deployment_examples" \notin DOMAIN metadata => index.examples = <<>>
        /\ "api_endpoints" \notin DOMAIN metadata => index.api_usage = <<>>
        /\ "annotated_template" \notin DOMAIN metadata => index.templates = <<>>
        /\ Len(index.intents) = Len(SourceList("user_intents"))
        /\ Len(index.patterns) = Len(SourceList("deployment_patterns"))
        /\ Len(index.examples) = Len(SourceList("deployment_examples"))

C8_Witness ==
    /\ IndexDone
    /\ DOMAIN metadata = {"deployment_patterns"}
    /\ Len(metadata["deployment_patterns"]) = 2
    /\ Len(index.patterns) = 2
    /\ index.templates = <<>>

\* C9: an element that lacks fields is still indexed, and each field it lacks
\* appears in its record as the empty default: the empty string for intent,
\* description, name, template, explanation, use_case, path and method, the
\* empty sequence for keywords, actions, examples, suggestions and
\* common_patterns.
C9_MissingFieldsDefault ==
    IndexDone =>
        /\ DOMAIN index = IndexKeys
        /\ Len(index.intents) = Len(SourceList("user_intents"))
        /\ Len(index.patterns) = Len(SourceList("deployment_patterns"))
        /\ Len(index.examples) = Len(SourceList("deployment_examples"))
        /\ \A n \in DOMAIN SourceList("user_intents") :
              LET e == SourceList("user_intents")[n]
                  r == index.intents[n]
              IN  /\ "intent" \notin DOMAIN e => r.text = ""
                  /\ "keywords" \notin DOMAIN e => r.keywords = <<>>
                  /\ "actions" \notin DOMAIN e => r.context.actions = <<>>
                  /\ "examples" \notin DOMAIN e => r.context.examples = <<>>
                  /\ "suggestions" \notin DOMAIN e => r.context.suggestions = <<>>
        /\ \A n \in DOMAIN SourceList("deployment_patterns") :
              LET e == SourceList("deployment_patterns")[n]
                  r == index.patterns[n]
              IN  /\ "description" \notin DOMAIN e => r.text = ""
                  /\ "keywords" \notin DOMAIN e => r.keywords = <<>>
                  /\ "name" \notin DOMAIN e => r.context.name = ""
                  /\ "template" \notin DOMAIN e => r.context.template = ""
                  /\ "explanation" \notin DOMAIN e => r.context.explanation = ""
                  /\ "use_case" \notin DOMAIN e => r.context.use_case = ""
        /\ \A n \in DOMAIN SourceList("deployment_examples") :
              LET e == SourceList("deployment_examples")[n]
                  r == index.examples[n]
              IN  /\ "description" \notin DOMAIN e => r.text = ""
                  /\ "keywords" \notin DOMAIN e => r.keywords = <<>>
        /\ LET endpoints == SourceList("api_endpoints")
           IN  /\ Len(index.api_usage) = UsageBefore(endpoints, Len(endpoints))
               /\ \A n \in DOMAIN endpoints :
                     \A j \in DOMAIN UsageOf(endpoints[n]) :
                         LET e == endpoints[n]
                             r == index.api_usage[UsageBefore(endpoints, n - 1) + j]
                         IN  /\ "path" \notin DOMAIN e => r.context.path = ""
                             /\ "method" \notin DOMAIN e => r.context.method = ""
                             /\ "description" \notin DOMAIN e => r.context.description = ""
                             /\ "common_patterns" \notin DOMAIN e => r.context.patterns = <<>>

C9_Witness ==
    /\ IndexDone
    /\ Len(SourceList("deployment_patterns")) = 1
    /\ DOMAIN SourceList("deployment_patterns")[1] = {"description", "name"}
    /\ index.patterns[1].context.use_case = ""
    /\ index.patterns[1].context.name = "the name"
    /\ index.patterns[1].keywords = <<>>

====
